---- MODULE Spec2Model ----
(***************************************************************************)
(* Model of the data/statistics layer of the FRC scouting application:     *)
(* the Team and Match entities (team.h, match.h, match.cpp), the SQLite    *)
(* backed DataBase repository (data.cpp) and its derived statistics.       *)
(*                                                                         *)
(* The SQLite engine is modelled by what the statements of data.cpp do to  *)
(* the two tables; engine failures (a statement that cannot be prepared, a *)
(* disk error) are outside the model.                                      *)
(***************************************************************************)
EXTENDS Integers, Sequences, FiniteSets, TLC

VARIABLES
    teamsTable,     \* rows of table Teams   (PRIMARY KEY (uid, teamNum))
    matchesTable,   \* rows of table Matches (matchNum INTEGER PRIMARY KEY)
    match,          \* one in-memory Match object held by a caller
    added,          \* teamNums passed to AddCompetitor since `match` was empty
    call,           \* the last operation called, with its arguments
    ret,            \* what that operation returned
    out,            \* what that operation printed or logged last
    uidLoop,        \* position of GetNextTeamUID's do-while loop
    csvFile,        \* the text of the CSV file last written by an export
    exported,       \* the rows that export read, in the order of the file
    predictor,      \* the RFPredictor object and what its constructor did
    dataBase,       \* the DataBase object and what its constructor did
    mainFrame       \* the match list of the MainFrame window

vars == <<teamsTable, matchesTable, match, added, call, ret, out, uidLoop,
          csvFile, exported, predictor, dataBase, mainFrame>>

(***************************************************************************)
(* Bounds of the model.                                                    *)
(***************************************************************************)
MaxTeamNum     == 2   \* store and Match inputs use teamNum 0..MaxTeamNum
MaxProfile     == 1   \* team inputs use metric profiles 0..MaxProfile
MaxTeamRows    == 2   \* rows kept in table Teams
MaxAddTeamNum  == 7   \* the adds-only scenario uses teamNum 1..MaxAddTeamNum
MaxRateMatches == 2   \* matches in the tables the win rate is computed on
MaxDisplayed   == 3   \* rows the match list shows at most

(***************************************************************************)
(* Program constants.                                                      *)
(***************************************************************************)
UidMin   == 1000      \* std::uniform_int_distribution<> dis(1000, 9999)
UidMax   == 9999
U16      == 65536     \* the metrics of Team are uint16_t
Slots    == 6         \* std::array<Team, 6> teams
RedSlots == 3         \* teams.begin() .. teams.begin() + 3

NoValue == "none"     \* `ret` and `out` of an operation that gives none

(***************************************************************************)
(* Team (team.h) and its row in table Teams.                               *)
(***************************************************************************)
\* Team team = {}  /  team = { 0 }
ZeroTeam ==
    [uid |-> 0, teamNum |-> 0, matchNum |-> 0,
     hangAttempt |-> FALSE, hangSuccess |-> FALSE,
     robotCycleSpeed |-> 0, coralPoints |-> 0, defense |-> 0,
     autonomousPoints |-> 0, driverSkill |-> 0, penaltys |-> 0,
     overall |-> 0, rankingPoints |-> 0]

\* a Team value a caller may hold: profile 0 is all zero, profile 1 is the
\* team of the spec's scenario, higher profiles sit at the top of uint16_t
MkTeam(uid, n, p) ==
    [uid |-> uid, teamNum |-> n, matchNum |-> p,
     hangAttempt |-> (p >= 1), hangSuccess |-> (p >= 2),
     robotCycleSpeed  |-> IF p = 0 THEN 0 ELSE IF p = 1 THEN 80 ELSE U16 - 1,
     coralPoints      |-> IF p = 0 THEN 0 ELSE IF p = 1 THEN 12 ELSE U16 - 1,
     defense          |-> IF p <= 1 THEN 0 ELSE U16 - p,
     autonomousPoints |-> IF p <= 1 THEN 0 ELSE U16 - p,
     driverSkill      |-> IF p <= 1 THEN 0 ELSE 100,
     penaltys         |-> p,
     overall          |-> IF p = 0 THEN 0 ELSE IF p = 1 THEN 75 ELSE 100,
     rankingPoints    |-> IF p <= 1 THEN 0 ELSE U16 - 1]

BoolToInt(b) == IF b THEN 1 ELSE 0   \* bool passed to sqlite3_bind_int
IntToBool(i) == i # 0                \* int assigned to a bool
IntToU16(i)  == i % U16              \* int assigned to a uint16_t

\* the 13 sqlite3_bind_int calls of AddTeam: the row that is written
BindTeam(team) ==
    [uid |-> team.uid, teamNum |-> team.teamNum, matchNum |-> team.matchNum,
     hangAttempt |-> BoolToInt(team.hangAttempt),
     hangSuccess |-> BoolToInt(team.hangSuccess),
     robotCycleSpeed |-> team.robotCycleSpeed,
     coralPoints |-> team.coralPoints, defense |-> team.defense,
     autonomousPoints |-> team.autonomousPoints,
     driverSkill |-> team.driverSkill, penaltys |-> team.penaltys,
     overall |-> team.overall, rankingPoints |-> team.rankingPoints]

\* Team::FromSQLStatment
TeamFromSQLStatment(row) ==
    [uid |-> row.uid, teamNum |-> row.teamNum, matchNum |-> row.matchNum,
     hangAttempt |-> IntToBool(row.hangAttempt),
     hangSuccess |-> IntToBool(row.hangSuccess),
     robotCycleSpeed |-> IntToU16(row.robotCycleSpeed),
     coralPoints |-> IntToU16(row.coralPoints),
     defense |-> IntToU16(row.defense),
     autonomousPoints |-> IntToU16(row.autonomousPoints),
     driverSkill |-> IntToU16(row.driverSkill),
     penaltys |-> IntToU16(row.penaltys),
     overall |-> IntToU16(row.overall),
     rankingPoints |-> IntToU16(row.rankingPoints)]

(***************************************************************************)
(* Match (match.h, match.cpp) and its row in table Matches.                *)
(***************************************************************************)
SlotIdx == 1..Slots      \* slot i of the source is index i+1 here

\* Match match = {}
EmptyMatch ==
    [teams |-> [i \in SlotIdx |-> ZeroTeam], teamCount |-> 0,
     matchNum |-> 0, redWin |-> FALSE, blueWin |-> FALSE]

\* the sqlite3_bind_int calls of AddMatch and UpdateMatch
BindMatch(m) ==
    [matchNum |-> m.matchNum,
     redWin |-> BoolToInt(m.redWin), blueWin |-> BoolToInt(m.blueWin),
     team |-> [i \in SlotIdx |-> m.teams[i].teamNum]]

\* teamCount after the loop of Match::FromSQLStatment has read columns 3..2+k
RECURSIVE HydratedCount(_, _)
HydratedCount(row, k) ==
    IF k = 0 THEN 0
    ELSE HydratedCount(row, k - 1) + (IF row.team[k] = 0 THEN 0 ELSE 1)

\* Match::FromSQLStatment
MatchFromSQLStatment(row) ==
    [teams |-> [i \in SlotIdx |->
                   IF row.team[i] = 0 THEN ZeroTeam
                   ELSE [ZeroTeam EXCEPT !.teamNum = row.team[i]]],
     teamCount |-> HydratedCount(row, Slots),
     matchNum |-> row.matchNum,
     redWin |-> IntToBool(row.redWin), blueWin |-> IntToBool(row.blueWin)]

\* Match::TeamInMatch
MatchTeamInMatch(m, teamNum) ==
    IF m.teamCount = 0 THEN FALSE
    ELSE \E i \in SlotIdx : m.teams[i].teamNum = teamNum

MsgFull  == "Match is full. Cannot add more teams."
MsgEmpty == "Match is empty. Cannot remove teams."

\* AddCompetitor without the capacity test, the write clamped to the last slot
AddCompetitor_OverwriteLast(m, team) ==
    IF m.teamCount = Slots THEN [m EXCEPT !.teams[Slots] = team]
    ELSE [m EXCEPT !.teams[m.teamCount + 1] = team,
                   !.teamCount = m.teamCount + 1]

\* AddCompetitor that counts before it writes: teams.at(++teamCount) = team,
\* and at() throws past the last slot
AddCompetitor_PreIncrement(m, team) ==
    IF m.teamCount >= Slots - 1 THEN m
    ELSE [m EXCEPT !.teams[m.teamCount + 2] = team,
                   !.teamCount = m.teamCount + 1]

\* Match::AddCompetitor
AddCompetitor(m, team) ==
    IF m.teamCount = Slots THEN m
    ELSE [m EXCEPT !.teams[m.teamCount + 1] = team,
                   !.teamCount = m.teamCount + 1]

\* the first slot that holds teamNum, 0 when no slot does
FirstSlotOf(m, teamNum) ==
    IF \E i \in SlotIdx : m.teams[i].teamNum = teamNum
    THEN CHOOSE i \in SlotIdx :
            /\ m.teams[i].teamNum = teamNum
            /\ \A j \in 1..(i - 1) : m.teams[j].teamNum # teamNum
    ELSE 0

\* RemoveCompetitor that closes the gap: the slots behind the removed team
\* move up by one
RemoveCompetitor_Shift(m, teamNum) ==
    IF m.teamCount = 0 THEN m
    ELSE IF FirstSlotOf(m, teamNum) = 0 THEN m
    ELSE [m EXCEPT !.teams = [i \in SlotIdx |->
                                 IF i < FirstSlotOf(m, teamNum) THEN m.teams[i]
                                 ELSE IF i < Slots THEN m.teams[i + 1]
                                 ELSE ZeroTeam],
                   !.teamCount = m.teamCount - 1]

\* Match::RemoveCompetitor
RemoveCompetitor(m, teamNum) ==
    IF m.teamCount = 0 THEN m
    ELSE IF FirstSlotOf(m, teamNum) = 0 THEN m
    ELSE [m EXCEPT !.teams[FirstSlotOf(m, teamNum)] = ZeroTeam,
                   !.teamCount = m.teamCount - 1]

\* RedAllianceTeam that scans to teams.end()
RedAllianceTeam_AllSlots(m, teamNum) ==
    \E i \in SlotIdx : teamNum = m.teams[i].teamNum

\* Match::RedAllianceTeam
RedAllianceTeam(m, teamNum) ==
    \E i \in 1..RedSlots : teamNum = m.teams[i].teamNum

\* RedWon that forgets blueWin; IsTie as redWin == blueWin
RedWon_IgnoresBlue(m) == m.redWin = TRUE
IsTie_Equal(m) == m.redWin = m.blueWin

\* Match::RedWon, Match::BlueWon, Match::IsTie
RedWon(m)  == m.redWin = TRUE /\ m.blueWin = FALSE
BlueWon(m) == m.redWin = FALSE /\ m.blueWin = TRUE
IsTie(m)   == m.redWin = TRUE /\ m.blueWin = TRUE

(***************************************************************************)
(* The DataBase repository (data.cpp): queries.                            *)
(***************************************************************************)
\* TeamExistsUID with the WHERE clause of TeamExists
TeamExistsUID_ByTeamNum(tt, uid) == \E r \in tt : r.teamNum = uid

\* DataBase::TeamExistsUID : SELECT 1 FROM Teams WHERE uid = ?
TeamExistsUID(tt, uid) == \E r \in tt : r.uid = uid

\* DataBase::TeamExists : SELECT 1 FROM Teams WHERE teamNum = ?
TeamExists(tt, teamNum) == \E r \in tt : r.teamNum = teamNum

\* DataBase::MatchExists : SELECT 1 FROM Matches WHERE matchNum = ?
MatchExists(mt, matchNum) == \E r \in mt : r.matchNum = matchNum

\* GetTeam whose SELECT has no WHERE clause
GetTeam_AnyRow(tt, uid) ==
    IF tt # {}
    THEN {TeamFromSQLStatment(r) : r \in tt}
    ELSE {ZeroTeam}

\* DataBase::GetTeam : SELECT * from Teams WHERE uid = ?, one sqlite3_step.
\* The key of Teams is (uid, teamNum), so several rows may match; SQL leaves
\* open which of them the single step yields, hence the set of the records
\* the call may return.
GetTeam(tt, uid) ==
    IF TeamExistsUID(tt, uid)
    THEN {TeamFromSQLStatment(r) : r \in {q \in tt : q.uid = uid}}
    ELSE {ZeroTeam}

\* DataBase::GetMatch : matchNum is the primary key, at most one row matches
GetMatch(mt, matchNum) ==
    IF MatchExists(mt, matchNum)
    THEN MatchFromSQLStatment(CHOOSE r \in mt : r.matchNum = matchNum)
    ELSE EmptyMatch

\* DataBase::GetMatches : SELECT * from Matches, rows in rowid (= matchNum) order
RECURSIVE GetMatches(_)
GetMatches(mt) ==
    IF mt = {} THEN <<>>
    ELSE LET r == CHOOSE r \in mt : \A q \in mt : r.matchNum <= q.matchNum
         IN  <<MatchFromSQLStatment(r)>> \o GetMatches(mt \ {r})

\* TeamInMatch that looks at the first slot only
TeamInMatch_FirstSlot(teamNum, m) == m.teams[1].teamNum = teamNum

\* DataBase::TeamInMatch(int teamNum, const Match& match)
TeamInMatch(teamNum, m) == \E i \in SlotIdx : m.teams[i].teamNum = teamNum

\* TeamInMatch(int, int) that looks at the red alliance only
TeamInMatchNum_RedOnly(mt, teamNum, matchNum) ==
    IF ~MatchExists(mt, matchNum) THEN FALSE
    ELSE IF GetMatch(mt, matchNum).teamCount = 0 THEN FALSE
    ELSE RedAllianceTeam(GetMatch(mt, matchNum), teamNum)

\* DataBase::TeamInMatch(int teamNum, int matchNum)
TeamInMatchNum(mt, teamNum, matchNum) ==
    IF ~MatchExists(mt, matchNum) THEN FALSE
    ELSE IF GetMatch(mt, matchNum).teamCount = 0 THEN FALSE
    ELSE TeamInMatch(teamNum, GetMatch(mt, matchNum))

(***************************************************************************)
(* Exact rationals stand for the doubles of GetTeamWinRate: a value is a   *)
(* pair <<numerator, denominator>> in lowest terms.  The rounding of the   *)
(* IEEE operations is not modelled.                                        *)
(***************************************************************************)
RECURSIVE Gcd(_, _)
Gcd(a, b) == IF b = 0 THEN a ELSE Gcd(b, a % b)

Rat(n, d) == <<n \div Gcd(n, d), d \div Gcd(n, d)>>
RatDiv(a, b) == Rat(a, b)                \* a / b for integers a >= 0, b > 0
RatTimes(q, k) == Rat(q[1] * k, q[2])    \* q * k for an integer k > 0
RatZero == <<0, 1>>                      \* the literal 0.0

\* the loop of GetTeamWinRate over matches[k..]: <<wins, matchesPlayed>>
RECURSIVE WinRateLoop(_, _, _, _, _)
WinRateLoop(matches, k, teamNum, wins, matchesPlayed) ==
    IF k > Len(matches) THEN <<wins, matchesPlayed>>
    ELSE IF ~TeamInMatch(teamNum, matches[k])
         THEN WinRateLoop(matches, k + 1, teamNum, wins, matchesPlayed)
    ELSE IF RedWon(matches[k]) /\ RedAllianceTeam(matches[k], teamNum)
         THEN WinRateLoop(matches, k + 1, teamNum, wins + 1, matchesPlayed + 1)
    ELSE WinRateLoop(matches, k + 1, teamNum, wins, matchesPlayed + 1)

RatNaN == <<0, 0>>                       \* 0.0 / 0, an IEEE NaN

\* GetTeamWinRate without the test of matchesPlayed
GetTeamWinRate_NoGuard(mt, teamNum) ==
    LET acc == WinRateLoop(GetMatches(mt), 1, teamNum, 0, 0)
    IN  IF acc[2] = 0 THEN RatNaN
        ELSE RatTimes(RatDiv(acc[1], acc[2]), 100)

\* DataBase::GetTeamWinRate
GetTeamWinRate(mt, teamNum) ==
    LET acc == WinRateLoop(GetMatches(mt), 1, teamNum, 0, 0)
    IN  IF acc[2] = 0 THEN RatZero
        ELSE RatTimes(RatDiv(acc[1], acc[2]), 100)

(***************************************************************************)
(* The DataBase repository: what the writing statements do to the tables.  *)
(***************************************************************************)
\* INSERT OR REPLACE INTO Teams: a row with the same (uid, teamNum) goes
InsertOrReplaceTeam(tt, team) ==
    {r \in tt : ~(r.uid = team.uid /\ r.teamNum = team.teamNum)}
        \cup {BindTeam(team)}

\* INSERT OR REPLACE INTO Matches: a row with the same matchNum goes
InsertOrReplaceMatch(mt, m) ==
    {r \in mt : r.matchNum # m.matchNum} \cup {BindMatch(m)}

\* DataBase::UpdateMatch : UPDATE Matches SET ... WHERE matchNum = ?
UpdateMatch(mt, m) ==
    IF ~MatchExists(mt, m.matchNum) THEN mt
    ELSE {r \in mt : r.matchNum # m.matchNum} \cup {BindMatch(m)}

MsgUpdateTeamError ==
    "There was an error updating a team. Try again or delete the team and retry."

\* DataBase::UpdateTeam : UPDATE Teams SET teamNum = ?, ... WHERE uid = ?.
\* Every row with the uid gets the 12 values; when that leaves two rows with
\* one (uid, teamNum) the statement fails on the primary key and changes
\* nothing.  <<table, logged error>>
UpdateTeam(tt, team) ==
    LET hit == {r \in tt : r.uid = team.uid}
    IN  IF Cardinality(hit) >= 2
        THEN <<tt, MsgUpdateTeamError>>
        ELSE <<(tt \ hit) \cup {BindTeam(team) : r \in hit}, NoValue>>

\* the loop of RemoveTeam over matches[k..]
RECURSIVE RemoveTeamLoop(_, _, _, _)
RemoveTeamLoop(mt, matches, k, teamNum) ==
    IF k > Len(matches) THEN mt
    ELSE IF ~TeamInMatch(teamNum, matches[k])
         THEN RemoveTeamLoop(mt, matches, k + 1, teamNum)
    ELSE RemoveTeamLoop(UpdateMatch(mt, RemoveCompetitor(matches[k], teamNum)),
                        matches, k + 1, teamNum)

(***************************************************************************)
(* CSV export and import of table Teams (ExportTableToCSV and              *)
(* ImportTableFromCSV with tableName == TEAM_TABLE).  A text is a sequence *)
(* of one-character strings, a file a sequence of lines.                   *)
(***************************************************************************)
Digits == <<"0", "1", "2", "3", "4", "5", "6", "7", "8", "9">>

\* sqlite3_column_text of an INTEGER column that holds n >= 0
RECURSIVE ColumnText(_)
ColumnText(n) ==
    IF n < 10 THEN <<Digits[n + 1]>>
    ELSE Append(ColumnText(n \div 10), Digits[(n % 10) + 1])

\* std::stoi of a text of decimal digits
RECURSIVE Stoi(_)
Stoi(s) ==
    IF Len(s) = 0 THEN 0
    ELSE Stoi(SubSeq(s, 1, Len(s) - 1)) * 10
            + (CHOOSE d \in 0..9 : Digits[d + 1] = s[Len(s)])

\* the columns of table Teams in the order of CREATE TABLE
TeamColumns ==
    <<"uid", "teamNum", "matchNum", "hangAttempt", "hangSuccess",
      "robotCycleSpeed", "coralPoints", "defense", "autonomousPoints",
      "driverSkill", "penaltys", "overall", "rankingPoints">>

\* the for loop of ExportTableToCSV from column i (0-based) on: each column's
\* text, a comma after every column but the last
RECURSIVE ExportColumns(_, _)
ExportColumns(row, i) ==
    IF i >= Len(TeamColumns) THEN <<>>
    ELSE ColumnText(row[TeamColumns[i + 1]])
            \o (IF i < Len(TeamColumns) - 1 THEN <<",">> ELSE <<>>)
            \o ExportColumns(row, i + 1)

\* the line ExportTableToCSV writes for a row of Teams: i starts at 1, the
\* uid is not written
ExportLine(row) == ExportColumns(row, 1)

\* the lambda SplitString of ImportTableFromCSV, its loop from character k on
RECURSIVE SplitLoop(_, _, _, _)
SplitLoop(s, k, token, result) ==
    IF k > Len(s)
    THEN IF token # <<>> THEN Append(result, token) ELSE result
    ELSE IF s[k] = ","
         THEN SplitLoop(s, k + 1, <<>>, Append(result, token))
         ELSE SplitLoop(s, k + 1, Append(token, s[k]), result)

SplitString(s) == SplitLoop(s, 1, <<>>, <<>>)

\* the Team ImportTableFromCSV builds from the values of one line; values[i]
\* of the source is values[i + 1] here
ImportTeam(values, uid) ==
    [uid |-> uid,
     teamNum |-> Stoi(values[1]),
     matchNum |-> Stoi(values[2]),
     overall |-> IntToU16(Stoi(values[3])),
     hangAttempt |-> IntToBool(Stoi(values[4])),
     hangSuccess |-> IntToBool(Stoi(values[5])),
     robotCycleSpeed |-> IntToU16(Stoi(values[6])),
     coralPoints |-> IntToU16(Stoi(values[7])),
     defense |-> IntToU16(Stoi(values[8])),
     autonomousPoints |-> IntToU16(Stoi(values[9])),
     driverSkill |-> IntToU16(Stoi(values[10])),
     penaltys |-> IntToU16(Stoi(values[11])),
     rankingPoints |-> IntToU16(Stoi(values[12]))]

\* the while loop of ImportTableFromCSV from line k on; uids[k] is the value
\* GetNextTeamUID returns for line k
RECURSIVE ImportLoop(_, _, _, _)
ImportLoop(tt, file, k, uids) ==
    IF k > Len(file) THEN tt
    ELSE ImportLoop(
             InsertOrReplaceTeam(tt, ImportTeam(SplitString(file[k]), uids[k])),
             file, k + 1, uids)

\* uids[k] is a value GetNextTeamUID can return for line k: the uid of no row
\* of Teams when line k is reached
FreshUids(tt, uids) ==
    \A k \in DOMAIN uids :
        /\ ~TeamExistsUID(tt, uids[k])
        /\ \A j \in 1..(k - 1) : uids[j] # uids[k]

\* the orders in which SELECT * may step through the rows of a table
RowOrders(table) ==
    {f \in [1..Cardinality(table) -> table] :
        \A i, j \in DOMAIN f : i # j => f[i] # f[j]}

(***************************************************************************)
(* Operations on the in-memory Match object.                               *)
(***************************************************************************)
NoHist == <<-1>>      \* `added` when the run is not one of adds from empty
Idle   == [pc |-> "idle", uid |-> 0, retried |-> FALSE]

\* before `new RFPredictor(this, db)` has run
NoPredictor == [constructed |-> FALSE]

\* match.AddCompetitor(team)
CallAddCompetitor(team) ==
    /\ uidLoop.pc = "idle"
    /\ match' = AddCompetitor(match, team)
    /\ added' = IF added = NoHist \/ match.teamCount = Slots THEN NoHist
                ELSE Append(added, team.teamNum)
    /\ call' = [name |-> "AddCompetitor"]
    /\ ret' = NoValue
    /\ out' = IF match.teamCount = Slots THEN MsgFull ELSE NoValue
    /\ UNCHANGED <<dataBase, mainFrame, csvFile, exported, predictor,
                   teamsTable, matchesTable, uidLoop>>

\* match.RemoveCompetitor(teamNum)
CallRemoveCompetitor(teamNum) ==
    /\ uidLoop.pc = "idle"
    /\ match' = RemoveCompetitor(match, teamNum)
    /\ added' = NoHist
    /\ call' = [name |-> "RemoveCompetitor"]
    /\ ret' = NoValue
    /\ out' = IF match.teamCount = 0 THEN MsgEmpty ELSE NoValue
    /\ UNCHANGED <<dataBase, mainFrame, csvFile, exported, predictor,
                   teamsTable, matchesTable, uidLoop>>

\* match.RedWon(), match.BlueWon(), match.IsTie() asked of the same object
CallResult ==
    /\ uidLoop.pc = "idle"
    /\ call' = [name |-> "Result"]
    /\ ret' = [RedWon |-> RedWon(match), BlueWon |-> BlueWon(match),
               IsTie |-> IsTie(match)]
    /\ out' = NoValue
    /\ UNCHANGED <<dataBase, mainFrame, csvFile, exported, predictor,
                   teamsTable, matchesTable, match, added, uidLoop>>

\* match.TeamInMatch(teamNum), DataBase::TeamInMatch(teamNum, match) and
\* match.RedAllianceTeam(teamNum) asked of the same object
CallTeamInMatch(teamNum) ==
    /\ uidLoop.pc = "idle"
    /\ call' = [name |-> "TeamInMatch", teamNum |-> teamNum]
    /\ ret' = [Match |-> MatchTeamInMatch(match, teamNum),
               DataBase |-> TeamInMatch(teamNum, match),
               RedAllianceTeam |-> RedAllianceTeam(match, teamNum)]
    /\ out' = NoValue
    /\ UNCHANGED <<dataBase, mainFrame, csvFile, exported, predictor,
                   teamsTable, matchesTable, match, added, uidLoop>>

(***************************************************************************)
(* Operations of the DataBase repository.                                  *)
(***************************************************************************)
MsgNoMatch   == "Match with match number already exists."
MsgSeated    == "Team is already in match. Cannot add"
MsgNotSeated == "Team not in match already. Cannot remove"
MsgUpdated   == "Updated match with match number"

\* DataBase::AddTeam
AddTeam(team) ==
    /\ uidLoop.pc = "idle"
    /\ Cardinality(InsertOrReplaceTeam(teamsTable, team)) <= MaxTeamRows
    /\ teamsTable' = InsertOrReplaceTeam(teamsTable, team)
    /\ call' = [name |-> "AddTeam", team |-> team]
    /\ ret' = NoValue
    /\ out' = "Added team to teams table."
    /\ UNCHANGED <<dataBase, mainFrame, csvFile, exported, predictor,
                   matchesTable, match, added, uidLoop>>

\* DataBase::AddMatch
AddMatch(m) ==
    /\ uidLoop.pc = "idle"
    /\ matchesTable' = InsertOrReplaceMatch(matchesTable, m)
    /\ call' = [name |-> "AddMatch", matchNum |-> m.matchNum]
    /\ ret' = NoValue
    /\ out' = "Added match to matches table."
    /\ UNCHANGED <<dataBase, mainFrame, csvFile, exported, predictor,
                   teamsTable, match, added, uidLoop>>

\* DataBase::AddTeamToMatch; `call` keeps the teamNum GetTeam(uid) resolved
AddTeamToMatch(uid, matchNum) ==
    /\ uidLoop.pc = "idle"
    /\ ret' = NoValue
    /\ IF ~MatchExists(matchesTable, matchNum)
       THEN /\ out' = MsgNoMatch
            /\ call' = [name |-> "AddTeamToMatch", uid |-> uid,
                        matchNum |-> matchNum, resolved |-> FALSE]
            /\ UNCHANGED matchesTable
       ELSE \E team \in GetTeam(teamsTable, uid) :
            /\ call' = [name |-> "AddTeamToMatch", uid |-> uid,
                        matchNum |-> matchNum, resolved |-> TRUE,
                        teamNum |-> team.teamNum]
            /\ IF TeamInMatchNum(matchesTable, team.teamNum, matchNum)
               THEN /\ out' = MsgSeated
                    /\ UNCHANGED matchesTable
               ELSE IF GetMatch(matchesTable, matchNum).teamCount >= Slots
               THEN /\ out' = MsgFull
                    /\ UNCHANGED matchesTable
               ELSE /\ matchesTable' =
                          UpdateMatch(matchesTable,
                              AddCompetitor(GetMatch(matchesTable, matchNum),
                                            team))
                    /\ out' = MsgUpdated
    /\ UNCHANGED <<dataBase, mainFrame, csvFile, exported, predictor,
                   teamsTable, match, added, uidLoop>>

\* DataBase::RemoveTeamFromMatch
RemoveTeamFromMatch(teamNum, matchNum) ==
    /\ uidLoop.pc = "idle"
    /\ call' = [name |-> "RemoveTeamFromMatch", teamNum |-> teamNum,
                matchNum |-> matchNum]
    /\ ret' = NoValue
    /\ IF ~MatchExists(matchesTable, matchNum)
       THEN /\ out' = MsgNoMatch
            /\ UNCHANGED matchesTable
       ELSE IF ~TeamInMatchNum(matchesTable, teamNum, matchNum)
       THEN /\ out' = MsgNotSeated
            /\ UNCHANGED matchesTable
       ELSE /\ matchesTable' =
                  UpdateMatch(matchesTable,
                      RemoveCompetitor(GetMatch(matchesTable, matchNum), teamNum))
            /\ out' = MsgUpdated
    /\ UNCHANGED <<dataBase, mainFrame, csvFile, exported, predictor,
                   teamsTable, match, added, uidLoop>>

\* DataBase::RemoveTeam
RemoveTeam(uid) ==
    /\ uidLoop.pc = "idle"
    /\ \E team \in GetTeam(teamsTable, uid) :
          matchesTable' = RemoveTeamLoop(matchesTable, GetMatches(matchesTable),
                                         1, team.teamNum)
    /\ teamsTable' = {r \in teamsTable : r.uid # uid}
    /\ call' = [name |-> "RemoveTeam", uid |-> uid,
                teamNums |-> {r.teamNum : r \in {q \in teamsTable : q.uid = uid}}]
    /\ ret' = NoValue
    /\ out' = "Removed team with team number"
    /\ UNCHANGED <<dataBase, mainFrame, csvFile, exported, predictor, match,
                   added, uidLoop>>

\* a call of DataBase::UpdateTeam
CallUpdateTeam(team) ==
    /\ uidLoop.pc = "idle"
    /\ teamsTable' = UpdateTeam(teamsTable, team)[1]
    /\ call' = [name |-> "UpdateTeam", team |-> team]
    /\ ret' = NoValue
    /\ out' = UpdateTeam(teamsTable, team)[2]
    /\ UNCHANGED <<dataBase, mainFrame, csvFile, exported, predictor,
                   matchesTable, match, added, uidLoop>>

\* RemoveMatch that also deletes the teams whose matchNum is the match
RemoveMatch_Cascade(matchNum) ==
    /\ uidLoop.pc = "idle"
    /\ matchesTable' = {r \in matchesTable : r.matchNum # matchNum}
    /\ teamsTable' = {r \in teamsTable : r.matchNum # matchNum}
    /\ call' = [name |-> "RemoveMatch", matchNum |-> matchNum,
                existed |-> MatchExists(matchesTable, matchNum)]
    /\ ret' = NoValue
    /\ out' = NoValue
    /\ UNCHANGED <<dataBase, mainFrame, csvFile, exported, predictor, match,
                   added, uidLoop>>

\* DataBase::RemoveMatch; `call` keeps whether the match was stored
RemoveMatch(matchNum) ==
    /\ uidLoop.pc = "idle"
    /\ matchesTable' = {r \in matchesTable : r.matchNum # matchNum}
    /\ call' = [name |-> "RemoveMatch", matchNum |-> matchNum,
                existed |-> MatchExists(matchesTable, matchNum)]
    /\ ret' = NoValue
    /\ out' = NoValue
    /\ UNCHANGED <<dataBase, mainFrame, csvFile, exported, predictor,
                   teamsTable, match, added, uidLoop>>

\* a call of DataBase::GetTeamWinRate
CallGetTeamWinRate(teamNum) ==
    /\ uidLoop.pc = "idle"
    /\ call' = [name |-> "GetTeamWinRate", teamNum |-> teamNum]
    /\ ret' = GetTeamWinRate(matchesTable, teamNum)
    /\ out' = NoValue
    /\ UNCHANGED <<dataBase, mainFrame, csvFile, exported, predictor,
                   teamsTable, matchesTable, match, added, uidLoop>>

\* DataBase::GetNextTeamUID is entered: uid = 0, the do-while body is next;
\* until the return, ret shows that 0
GetNextTeamUID ==
    /\ uidLoop.pc = "idle"
    /\ uidLoop' = [pc |-> "loop", uid |-> 0, retried |-> FALSE]
    /\ call' = [name |-> "GetNextTeamUID"]
    /\ ret' = 0
    /\ out' = NoValue
    /\ UNCHANGED <<dataBase, mainFrame, csvFile, exported, predictor,
                   teamsTable, matchesTable, match, added>>

\* a generator that only ever gives the two lowest values of the range
UidDraws_Low == UidMin..(UidMin + 1)

\* the values uid = dis(gen) can take
UidDraws == UidMin..UidMax

\* one pass of the do-while of GetNextTeamUID: draw, then test the condition
GetNextTeamUIDDraw ==
    /\ uidLoop.pc = "loop"
    /\ \E u \in UidDraws :
          IF TeamExistsUID(teamsTable, u)
          THEN /\ uidLoop' = [pc |-> "loop", uid |-> u, retried |-> TRUE]
               /\ UNCHANGED ret
          ELSE /\ uidLoop' = [pc |-> "idle", uid |-> u,
                              retried |-> uidLoop.retried]
               /\ ret' = u
    /\ UNCHANGED <<dataBase, mainFrame, csvFile, exported, predictor,
                   teamsTable, matchesTable, match, added, call, out>>

\* DataBase::ExportTableToCSV(TEAM_TABLE, file)
ExportTableToCSV ==
    /\ uidLoop.pc = "idle"
    /\ \E rows \in RowOrders(teamsTable) :
          /\ csvFile' = [k \in DOMAIN rows |-> ExportLine(rows[k])]
          /\ exported' = rows
    /\ call' = [name |-> "ExportTableToCSV"]
    /\ ret' = NoValue
    /\ out' = NoValue
    /\ UNCHANGED <<dataBase, mainFrame, predictor, teamsTable, matchesTable,
                   match, added, uidLoop>>

\* DataBase::ImportTableFromCSV(TEAM_TABLE, file) on the file last exported;
\* uids are the values the calls of GetNextTeamUID return
ImportTableFromCSV(uids) ==
    /\ uidLoop.pc = "idle"
    /\ Cardinality(teamsTable) + Len(csvFile) <= MaxTeamRows
    /\ DOMAIN uids = DOMAIN csvFile
    /\ FreshUids(teamsTable, uids)
    /\ teamsTable' = ImportLoop(teamsTable, csvFile, 1, uids)
    /\ call' = [name |-> "ImportTableFromCSV", before |-> teamsTable]
    /\ ret' = NoValue
    /\ out' = "Data imported from"
    /\ UNCHANGED <<dataBase, mainFrame, csvFile, exported, predictor,
                   matchesTable, match, added, uidLoop>>

(***************************************************************************)
(* The match predictor (rfpredict.h, rfpredict.cpp).  The random forest    *)
(* library is modelled by its outcomes: whether a load succeeds, fails or  *)
(* raises std::runtime_error, and the label Classify gives.                *)
(***************************************************************************)
MsgLoadError  == "Error loading model. Predictions unavailable."
MsgTrainError == "Error loading data to train model. Predictions unavailable."
MsgTrained    == "Trained RF Model with an accuracy of : "
MsgNoForest   == "RandomForest::Classify(): no random forest trained"

LoadOutcomes == {"loaded", "failed", "threw"}

\* the object `new RFPredictor` allocates, before the constructor body runs:
\* m_available has no initializer, it holds whatever the memory held
RawPredictor(uninit) ==
    [constructed |-> TRUE, m_available |-> uninit, load |-> "none",
     trainAttempted |-> FALSE, featuresLoaded |-> FALSE,
     labelsLoaded |-> FALSE, trained |-> FALSE, accuracy |-> NoValue,
     saved |-> FALSE, terminated |-> FALSE, logged |-> NoValue]

\* RFPredictor::LoadModel : m_available is assigned only when data::Load
\* returns; the function returns m_available
LoadModel(p, load) ==
    IF load = "threw"
    THEN [p EXCEPT !.load = load, !.logged = MsgLoadError]
    ELSE [p EXCEPT !.load = load, !.m_available = (load = "loaded")]

\* TrainModel that keeps only a forest that scored at least half
TrainModel_SaveIfAccurate(p, featuresOk, labelsOk, accuracy) ==
    IF ~featuresOk \/ ~labelsOk
    THEN [p EXCEPT !.trainAttempted = TRUE, !.featuresLoaded = featuresOk,
                   !.logged = MsgTrainError]
    ELSE [p EXCEPT !.trainAttempted = TRUE, !.featuresLoaded = TRUE,
                   !.labelsLoaded = TRUE, !.trained = TRUE,
                   !.accuracy = accuracy, !.m_available = TRUE,
                   !.saved = (accuracy >= 50), !.logged = MsgTrained]

\* RFPredictor::TrainModel : the labels are loaded only after the features;
\* the accuracy is logged and nothing else is done with it
TrainModel(p, featuresOk, labelsOk, accuracy) ==
    IF ~featuresOk \/ ~labelsOk
    THEN [p EXCEPT !.trainAttempted = TRUE, !.featuresLoaded = featuresOk,
                   !.logged = MsgTrainError]
    ELSE [p EXCEPT !.trainAttempted = TRUE, !.featuresLoaded = TRUE,
                   !.labelsLoaded = TRUE, !.trained = TRUE,
                   !.accuracy = accuracy, !.m_available = TRUE,
                   !.saved = TRUE, !.logged = MsgTrained]

\* RFPredictor::RFPredictor
RFPredictor(uninit, load, featuresOk, labelsOk, accuracy) ==
    /\ uidLoop.pc = "idle"
    /\ ~predictor.constructed
    /\ LET p == LoadModel(RawPredictor(uninit), load)
       IN  /\ predictor' = IF ~p.m_available
                           THEN TrainModel(p, featuresOk, labelsOk, accuracy)
                           ELSE p
           /\ out' = predictor'.logged
    /\ call' = [name |-> "RFPredictor"]
    /\ ret' = NoValue
    /\ UNCHANGED <<dataBase, mainFrame, csvFile, exported, teamsTable,
                   matchesTable, match, added, uidLoop>>

\* an int stored into an arma::mat entry
IntToDouble(n) == Rat(n, 1)

\* a feature vector that lists the blue alliance before the red one
Features_BlueFirst(m, winRates) ==
    [i \in 1..(2 * Slots) |->
        LET j == ((i - 1 + RedSlots) % Slots) + 1
        IN  IF i <= Slots THEN IntToDouble(m.teams[j].teamNum)
            ELSE winRates[j]]

\* the 12 features PredictMatchOutcome(const Match&, std::vector<double>)
\* hands to Classify; winRates is what the loop of PredictMatchOutcome(int)
\* collected
Features(m, winRates) ==
    [i \in 1..(2 * Slots) |->
        IF i <= Slots THEN IntToDouble(m.teams[i].teamNum)
        ELSE winRates[i - Slots]]

\* the loop of PredictMatchOutcome(int) over match.teams
WinRates(mt, m) == [i \in SlotIdx |-> GetTeamWinRate(mt, m.teams[i].teamNum)]

\* the calls PredictMatchOutcome(int) makes on the DataBase once it is past
\* the test of m_available: GetMatch, then GetTeamWinRate for each slot
RepositoryReads ==
    <<"GetMatch">> \o [i \in SlotIdx |-> "GetTeamWinRate"]

\* PredictMatchOutcome that fetches the match and the win rates before it
\* tests m_available
PredictMatchOutcome_ReadsFirst(matchNum, prediction) ==
    /\ uidLoop.pc = "idle"
    /\ predictor.constructed
    /\ ~predictor.terminated
    /\ call' = [name |-> "PredictMatchOutcome", matchNum |-> matchNum,
                classified |-> predictor.m_available,
                reads |-> RepositoryReads,
                features |-> Features(GetMatch(matchesTable, matchNum),
                               WinRates(matchesTable,
                                        GetMatch(matchesTable, matchNum)))]
    /\ ret' = IF predictor.m_available THEN IntToBool(prediction) ELSE FALSE
    /\ out' = NoValue
    /\ UNCHANGED <<dataBase, mainFrame, csvFile, exported, predictor,
                   teamsTable, matchesTable, match, added, uidLoop>>

\* PredictMatchOutcome that tries to load the model again when none is there
PredictMatchOutcome_Retry(matchNum, prediction) ==
    /\ uidLoop.pc = "idle"
    /\ predictor.constructed
    /\ ~predictor.terminated
    /\ predictor' = [predictor EXCEPT !.m_available = TRUE]
    /\ call' = [name |-> "PredictMatchOutcome", matchNum |-> matchNum,
                classified |-> TRUE, reads |-> RepositoryReads,
                features |-> Features(GetMatch(matchesTable, matchNum),
                               WinRates(matchesTable,
                                        GetMatch(matchesTable, matchNum)))]
    /\ ret' = IntToBool(prediction)
    /\ out' = NoValue
    /\ UNCHANGED <<dataBase, mainFrame, csvFile, exported, teamsTable,
                   matchesTable, match, added, uidLoop>>

\* RFPredictor::PredictMatchOutcome(int matchNum); prediction is the label
\* m_rf.Classify gives.  Classify on a forest that was neither loaded nor
\* trained raises std::invalid_argument, which nothing catches.
PredictMatchOutcome(matchNum, prediction) ==
    /\ uidLoop.pc = "idle"
    /\ predictor.constructed
    /\ ~predictor.terminated
    /\ IF ~predictor.m_available
       THEN /\ call' = [name |-> "PredictMatchOutcome", matchNum |-> matchNum,
                        classified |-> FALSE, reads |-> <<>>]
            /\ ret' = FALSE
            /\ out' = NoValue
            /\ UNCHANGED predictor
       ELSE /\ call' = [name |-> "PredictMatchOutcome", matchNum |-> matchNum,
                        classified |-> TRUE, reads |-> RepositoryReads,
                        features |->
                            Features(GetMatch(matchesTable, matchNum),
                                WinRates(matchesTable,
                                         GetMatch(matchesTable, matchNum)))]
            /\ IF predictor.load = "loaded" \/ predictor.trained
               THEN /\ ret' = IntToBool(prediction)
                    /\ out' = NoValue
                    /\ UNCHANGED predictor
               ELSE /\ ret' = NoValue
                    /\ out' = MsgNoForest
                    /\ predictor' = [predictor EXCEPT !.terminated = TRUE]
    /\ UNCHANGED <<dataBase, mainFrame, csvFile, exported, teamsTable,
                   matchesTable, match, added, uidLoop>>

\* RFPredictor::IsModelAvailable
IsModelAvailable ==
    /\ uidLoop.pc = "idle"
    /\ predictor.constructed
    /\ ~predictor.terminated
    /\ call' = [name |-> "IsModelAvailable"]
    /\ ret' = predictor.m_available
    /\ out' = NoValue
    /\ UNCHANGED <<dataBase, mainFrame, csvFile, exported, predictor,
                   teamsTable, matchesTable, match, added, uidLoop>>

(***************************************************************************)
(* The start of the application: the DataBase constructor (data.cpp) and   *)
(* the match list of the MainFrame window with its create, duplicate and   *)
(* delete handlers (mainframe.cpp, events.cpp).  The file system and the   *)
(* SQLite calls of the constructor are modelled by their outcomes.         *)
(***************************************************************************)
\* before `new DataBase(DB_PATH, this)` has run
NoDataBase ==
    [allocated |-> FALSE, constructed |-> FALSE, ended |-> "no",
     m_connected |-> FALSE, opened |-> FALSE, hasTeams |-> FALSE,
     hasMatches |-> FALSE, logged |-> NoValue]

\* the object `new DataBase` allocates, before the constructor body runs:
\* m_connected and m_db have no initializer
RawDataBase(uninit) ==
    [NoDataBase EXCEPT !.allocated = TRUE, !.m_connected = uninit]

\* the object after a constructor that met no failure
OpenDataBase ==
    [allocated |-> TRUE, constructed |-> TRUE, ended |-> "no",
     m_connected |-> TRUE, opened |-> TRUE, hasTeams |-> TRUE,
     hasMatches |-> TRUE, logged |-> "Created blank matches table."]

\* Connect that only reports a failed sqlite3_open
Connect_NoExit(db, openOk) ==
    IF db.m_connected THEN db
    ELSE IF ~openOk THEN [db EXCEPT !.logged = "Failed to connect to SQL DB. Aborting."]
    ELSE [db EXCEPT !.opened = TRUE, !.m_connected = TRUE,
                    !.logged = "Connected to SQL DB"]

\* DataBase::Connect
Connect(db, openOk) ==
    IF db.m_connected THEN db
    ELSE IF ~openOk THEN [db EXCEPT !.ended = "exit", !.logged = "Failed to connect to SQL DB. Aborting."]
    ELSE [db EXCEPT !.opened = TRUE, !.m_connected = TRUE,
                    !.logged = "Connected to SQL DB"]

\* what sqlite3_exec(m_db, ...) does with an m_db that sqlite3_open never
\* set: it reports SQLITE_MISUSE or the process dies in the call
UnopenedOutcomes == {"misuse", "crash"}

\* sqlite3_exec of a CREATE TABLE IF NOT EXISTS
SqliteExec(db, ok, unopened) ==
    IF ~db.opened THEN unopened
    ELSE IF ok THEN "ok" ELSE "error"

\* DataBase::NewTeamTable
NewTeamTable(db, ok, unopened) ==
    LET res == SqliteExec(db, ok, unopened)
    IN  IF res = "crash" THEN [db EXCEPT !.ended = "crash"]
        ELSE IF res # "ok"
        THEN [db EXCEPT !.ended = "exit", !.logged = "Failed to create table. Aborting."]
        ELSE [db EXCEPT !.hasTeams = TRUE, !.logged = "Created blank team table."]

\* DataBase::NewMatchesTable
NewMatchesTable(db, ok, unopened) ==
    LET res == SqliteExec(db, ok, unopened)
    IN  IF res = "crash" THEN [db EXCEPT !.ended = "crash"]
        ELSE IF res # "ok"
        THEN [db EXCEPT !.ended = "exit", !.logged = "Failed to create table. Aborting."]
        ELSE [db EXCEPT !.hasMatches = TRUE, !.logged = "Created blank matches table."]

\* DataBase::CreateTables
CreateTables(db, teamsOk, matchesOk, unopened) ==
    IF ~db.m_connected
    THEN [db EXCEPT !.logged =
             "Not connected to database. Failed to created initial tables."]
    ELSE LET t == NewTeamTable(db, teamsOk, unopened)
         IN  IF t.ended # "no" THEN t
             ELSE NewMatchesTable(t, matchesOk, unopened)

\* DataBase::DataBase ; the file is created when absent; exit(-1) and a
\* crash end the process inside the constructor, which then never returns
DataBase(uninit, fileExists, creatable, openOk, teamsOk, matchesOk, unopened) ==
    /\ ~dataBase.allocated
    /\ (teamsTable # {} \/ matchesTable # {}) => fileExists
    /\ LET a == IF ~fileExists /\ ~creatable
                THEN [RawDataBase(uninit) EXCEPT
                         !.ended = "exit",
                         !.logged = "Failed to create file. Aborting."]
                ELSE RawDataBase(uninit)
           b == IF a.ended # "no" THEN a ELSE Connect(a, openOk)
           c == IF b.ended # "no" THEN b
                ELSE CreateTables(b, teamsOk, matchesOk, unopened)
       IN  dataBase' = [c EXCEPT !.constructed = (c.ended = "no")]
    /\ call' = [name |-> "DataBase", fileExists |-> fileExists,
                fileCreatable |-> creatable, openOk |-> openOk,
                teamsOk |-> teamsOk, matchesOk |-> matchesOk]
    /\ ret' = NoValue
    /\ out' = dataBase'.logged
    /\ UNCHANGED <<mainFrame, csvFile, exported, predictor, teamsTable,
                   matchesTable, match, added, uidLoop>>

\* the MainFrame members the match list uses, before the window shows data;
\* rows is column 0 of m_matchListView, 0 standing for a row without text.
\* m_displayedMatchCount has no initializer: 0 is one value it may hold
NoFrame ==
    [shown |-> FALSE, terminated |-> FALSE, m_displayedMatchCount |-> 0,
     m_selectedMatchRow |-> -1, rows |-> <<>>]

\* wxListCtrl::InsertItem with item id `id` (rows are numbered from 0): an
\* id past the end appends
InsertItem(rows, id) ==
    LET p == IF id > Len(rows) THEN Len(rows) ELSE id
    IN  SubSeq(rows, 1, p) \o <<0>> \o SubSeq(rows, p + 1, Len(rows))

\* wxListCtrl::SetItem(row, 0, text), GetItemText(row), DeleteItem(row)
SetItem(rows, row, n) ==
    IF row + 1 \in DOMAIN rows THEN [rows EXCEPT ![row + 1] = n] ELSE rows
GetItemText(rows, row) ==
    IF row + 1 \in DOMAIN rows THEN rows[row + 1] ELSE 0
DeleteItem(rows, row) ==
    IF row + 1 \in DOMAIN rows
    THEN SubSeq(rows, 1, row) \o SubSeq(rows, row + 2, Len(rows))
    ELSE rows

\* MainFrame::CreateMatchRow
CreateMatchRow(f, m) ==
    LET itemId == f.m_displayedMatchCount
    IN  [f EXCEPT !.m_displayedMatchCount = itemId + 1,
                  !.rows = SetItem(InsertItem(f.rows, itemId), itemId,
                                   m.matchNum),
                  !.m_selectedMatchRow = itemId + 1]

\* the loop of DisplayExistingData over matches[k..]
RECURSIVE CreateMatchRows(_, _, _)
CreateMatchRows(f, matches, k) ==
    IF k > Len(matches) THEN f
    ELSE CreateMatchRows(CreateMatchRow(f, matches[k]), matches, k + 1)

\* MainFrame::DisplayExistingData, called by the MainFrame constructor once
\* the DataBase constructor has returned
DisplayExistingData ==
    /\ dataBase.constructed
    /\ ~mainFrame.shown
    /\ mainFrame' =
          [CreateMatchRows([mainFrame EXCEPT !.rows = <<>>],
                           GetMatches(matchesTable), 1)
              EXCEPT !.shown = TRUE]
    /\ call' = [name |-> "DisplayExistingData"]
    /\ ret' = NoValue
    /\ out' = NoValue
    /\ UNCHANGED <<dataBase, csvFile, exported, predictor, teamsTable,
                   matchesTable, match, added, uidLoop>>

\* MainFrame::OnMatchRowLeftClicked when the list reports `row` as selected;
\* std::stoi of the text of a row raises std::invalid_argument, which
\* nothing catches, when the row has no text
OnMatchRowLeftClicked(row) ==
    /\ mainFrame.shown
    /\ ~mainFrame.terminated
    /\ row + 1 \in DOMAIN mainFrame.rows
    /\ IF mainFrame.m_selectedMatchRow > 2 /\ mainFrame.m_selectedMatchRow = row
       THEN UNCHANGED mainFrame
       ELSE mainFrame' =
               [mainFrame EXCEPT
                   !.m_selectedMatchRow = row,
                   !.terminated =
                       /\ row <= mainFrame.m_displayedMatchCount
                       /\ GetItemText(mainFrame.rows, row) = 0]
    /\ call' = [name |-> "OnMatchRowLeftClicked", row |-> row]
    /\ ret' = NoValue
    /\ out' = NoValue
    /\ UNCHANGED <<dataBase, csvFile, exported, predictor, teamsTable,
                   matchesTable, match, added, uidLoop>>

\* MainFrame::OnCreateNewMatch
OnCreateNewMatch ==
    /\ mainFrame.shown
    /\ ~mainFrame.terminated
    /\ mainFrame.m_displayedMatchCount < MaxDisplayed
    /\ LET m == [EmptyMatch EXCEPT
                    !.matchNum = mainFrame.m_displayedMatchCount + 1]
       IN  /\ mainFrame' = CreateMatchRow(mainFrame, m)
           /\ matchesTable' = InsertOrReplaceMatch(matchesTable, m)
           /\ call' = [name |-> "OnCreateNewMatch", stored |-> TRUE,
                       matchNum |-> m.matchNum]
    /\ ret' = NoValue
    /\ out' = "Added match to matches table."
    /\ UNCHANGED <<dataBase, csvFile, exported, predictor, teamsTable, match,
                   added, uidLoop>>

\* MainFrame::GetMatchFromRow, for a row whose text std::stoi accepts
GetMatchFromRow(f, mt, row) ==
    IF row > f.m_displayedMatchCount THEN EmptyMatch
    ELSE GetMatch(mt, GetItemText(f.rows, row))

\* MainFrame::OnDuplicateMatch
OnDuplicateMatch ==
    /\ mainFrame.shown
    /\ ~mainFrame.terminated
    /\ mainFrame.m_displayedMatchCount < MaxDisplayed
    /\ IF /\ mainFrame.m_selectedMatchRow <= mainFrame.m_displayedMatchCount
          /\ GetItemText(mainFrame.rows, mainFrame.m_selectedMatchRow) = 0
       THEN /\ mainFrame' = [mainFrame EXCEPT !.terminated = TRUE]
            /\ call' = [name |-> "OnDuplicateMatch", stored |-> FALSE,
                        matchNum |-> 0]
            /\ out' = "invalid stoi argument"
            /\ UNCHANGED matchesTable
       ELSE LET newMatch ==
                    [GetMatchFromRow(mainFrame, matchesTable,
                                     mainFrame.m_selectedMatchRow)
                        EXCEPT !.matchNum =
                                   mainFrame.m_displayedMatchCount + 1]
            IN  /\ mainFrame' = CreateMatchRow(mainFrame, newMatch)
                /\ matchesTable' = InsertOrReplaceMatch(matchesTable, newMatch)
                /\ call' = [name |-> "OnDuplicateMatch", stored |-> TRUE,
                            matchNum |-> newMatch.matchNum]
                /\ out' = "Added match to matches table."
    /\ ret' = NoValue
    /\ UNCHANGED <<dataBase, csvFile, exported, predictor, teamsTable, match,
                   added, uidLoop>>

\* MainFrame::GetSelectedRowMatchNum : 0 when the text is not a number
GetSelectedRowMatchNum(f) == GetItemText(f.rows, f.m_selectedMatchRow)

\* MainFrame::OnDeleteMatch ; opt is the answer to the confirmation box
OnDeleteMatch(opt) ==
    /\ mainFrame.shown
    /\ ~mainFrame.terminated
    /\ IF opt # "yes" \/ GetSelectedRowMatchNum(mainFrame) = 0
       THEN UNCHANGED <<mainFrame, matchesTable>>
       ELSE /\ matchesTable' =
                  {r \in matchesTable :
                      r.matchNum # GetSelectedRowMatchNum(mainFrame)}
            /\ mainFrame' =
                  [mainFrame EXCEPT
                      !.rows = DeleteItem(mainFrame.rows,
                                          mainFrame.m_selectedMatchRow),
                      !.m_displayedMatchCount =
                          mainFrame.m_displayedMatchCount - 1]
    /\ call' = [name |-> "OnDeleteMatch", opt |-> opt,
                matchNum |-> GetSelectedRowMatchNum(mainFrame)]
    /\ ret' = NoValue
    /\ out' = NoValue
    /\ UNCHANGED <<dataBase, csvFile, exported, predictor, teamsTable, match,
                   added, uidLoop>>

(***************************************************************************)
(* Inputs of the operations.                                               *)
(***************************************************************************)
TeamNums  == 0..MaxTeamNum
MatchNums == {1, 2}            \* the match numbers callers use
StoreUids == {UidMin, UidMin + 1}

\* a row of table Matches
MkRow(matchNum, roster, rw, bw) ==
    [matchNum |-> matchNum, redWin |-> rw, blueWin |-> bw, team |-> roster]

\* a Match a caller filled in by hand, as ImportTableFromCSV does: the
\* teamNum of each slot, matchNum and the results; teamCount is left at 0
MkMatch(matchNum, roster, rw, bw) ==
    [teams |-> [i \in SlotIdx |-> [ZeroTeam EXCEPT !.teamNum = roster[i]]],
     teamCount |-> 0, matchNum |-> matchNum, redWin |-> rw, blueWin |-> bw]

\* teams handed to Match::AddCompetitor
MatchTeamInputs == {MkTeam(UidMin + n, n, 1) : n \in TeamNums}
AddTeamInputs   == {MkTeam(UidMin + n, n, 1) : n \in 1..MaxAddTeamNum}

\* rows a Match object is hydrated from
HydrateRosters ==
    {<<0, 0, 0, 0, 0, 0>>, <<0, 1, 0, 0, 0, 0>>,
     <<1, 0, 2, 0, 0, 1>>, <<1, 2, 1, 2, 1, 2>>}
HydrateRows == {MkRow(1, roster, 1, 0) : roster \in HydrateRosters}

\* rows whose results RedWon, BlueWon and IsTie are asked of
ResultRows ==
    {MkRow(1, roster, rw, bw) :
        roster \in [SlotIdx -> {0, 1}], rw \in {0, 1}, bw \in {0, 1}}

\* teams and matches handed to the repository
StoreTeamInputs == {MkTeam(uid, n, 1) : uid \in StoreUids, n \in TeamNums}
ProfileTeamInputs ==
    {MkTeam(uid, n, p) : uid \in StoreUids, n \in TeamNums, p \in 0..MaxProfile}
StoreRosters == {<<0, 0, 0, 0, 0, 0>>, <<1, 1, 0, 0, 0, 0>>}
StoreMatchInputs ==
    {MkMatch(k, roster, TRUE, FALSE) : k \in MatchNums, roster \in StoreRosters}

\* stores GetNextTeamUID is called on
UidRows ==
    {BindTeam(MkTeam(uid, 1, 0)) : uid \in {UidMin, UidMin + 1, UidMax}}
UidTables == {S \in SUBSET UidRows : Cardinality(S) <= MaxTeamRows}

\* tables of matches GetTeamWinRate is called on: each match number is
\* absent or holds one of the alliances below on red and on blue
AllianceInputs == {<<0, 0, 0>>, <<1, 0, 0>>, <<0, 2, 1>>}
RateChoices ==
    {<<"absent">>} \cup
    {<<"row", red \o blue, rw, bw>> :
        red \in AllianceInputs, blue \in AllianceInputs,
        rw \in {0, 1}, bw \in {0, 1}}
RateTables ==
    {{MkRow(k, f[k][2], f[k][3], f[k][4]) :
         k \in {j \in 1..MaxRateMatches : f[j][1] = "row"}} :
     f \in [1..MaxRateMatches -> RateChoices]}

\* values GetNextTeamUID returns during an import
ImportUids == {UidMin, UidMin + 1, UidMax}
ImportUidSeqs == UNION {[1..n -> ImportUids] : n \in 0..MaxTeamRows}

\* tables of Teams an export is made from
CsvTables ==
    {S \in SUBSET {BindTeam(t) : t \in ProfileTeamInputs} :
        /\ Cardinality(S) <= MaxTeamRows
        /\ \A r, q \in S : r.uid = q.uid => r = q}

\* rosters of the stored matches teams are seated in and unseated from: none
\* seated, an empty slot before an occupied one, seats on both alliances,
\* and six seated teams that are none of TeamNums
FullRoster == [i \in SlotIdx |-> MaxTeamNum + i]
SeatRosters ==
    {<<0, 0, 0, 0, 0, 0>>, <<0, 1, 0, 0, 0, 0>>, <<1, 0, 0, 2, 0, 0>>,
     FullRoster}
SeatChoices == {<<"absent">>} \cup {<<"row", roster>> : roster \in SeatRosters}
SeatTables ==
    {{MkRow(k, f[k][2], 1, IF k = 1 THEN 0 ELSE 1) :
         k \in {j \in MatchNums : f[j][1] = "row"}} :
     f \in [MatchNums -> SeatChoices]}

\* tables of matches the predictor reads: each match number is absent or
\* holds alliances of AllianceInputs; match 1 is a red win, the others ties
PredictChoices ==
    {<<"absent">>} \cup
    {<<"row", red \o blue>> : red \in AllianceInputs, blue \in AllianceInputs}
PredictTables ==
    {{MkRow(k, f[k][2], 1, IF k = 1 THEN 0 ELSE 1) :
         k \in {j \in MatchNums : f[j][1] = "row"}} :
     f \in [MatchNums -> PredictChoices]}

(***************************************************************************)
(* Specifications.                                                         *)
(***************************************************************************)
InitCommon ==
    /\ added = NoHist
    /\ call = [name |-> "Init"]
    /\ ret = NoValue
    /\ out = NoValue
    /\ uidLoop = Idle
    /\ csvFile = <<>>
    /\ exported = <<>>
    /\ predictor = NoPredictor
    /\ dataBase = OpenDataBase
    /\ mainFrame = NoFrame

\* a Match object, empty or hydrated, under AddCompetitor / RemoveCompetitor
InitMatch ==
    /\ InitCommon
    /\ teamsTable = {}
    /\ matchesTable = {}
    /\ match \in {EmptyMatch} \cup {MatchFromSQLStatment(r) : r \in HydrateRows}

NextMatch ==
    \/ \E team \in MatchTeamInputs : CallAddCompetitor(team)
    \/ \E teamNum \in TeamNums : CallRemoveCompetitor(teamNum)
    \/ CallResult

SpecMatch == InitMatch /\ [][NextMatch]_vars

\* the same, with callers that pass teams and teamNums other than 0 only
NextMatchSeated ==
    \/ \E team \in MatchTeamInputs : team.teamNum # 0 /\ CallAddCompetitor(team)
    \/ \E teamNum \in TeamNums \ {0} : CallRemoveCompetitor(teamNum)

SpecMatchSeated == InitMatch /\ [][NextMatchSeated]_vars

\* an empty Match object under AddCompetitor only
InitMatchAdd ==
    /\ teamsTable = {}
    /\ matchesTable = {}
    /\ match = EmptyMatch
    /\ added = <<>>
    /\ call = [name |-> "Init"]
    /\ ret = NoValue
    /\ out = NoValue
    /\ uidLoop = Idle
    /\ csvFile = <<>>
    /\ exported = <<>>
    /\ predictor = NoPredictor
    /\ dataBase = OpenDataBase
    /\ mainFrame = NoFrame

NextMatchAdd == \E team \in AddTeamInputs : CallAddCompetitor(team)

SpecMatchAdd == InitMatchAdd /\ [][NextMatchAdd]_vars

\* the repository, from the empty store a fresh data.db gives
Init ==
    /\ InitCommon
    /\ teamsTable = {}
    /\ matchesTable = {}
    /\ match = EmptyMatch

Next ==
    \/ \E team \in StoreTeamInputs : AddTeam(team)
    \/ \E m \in StoreMatchInputs : AddMatch(m)
    \/ \E uid \in StoreUids, matchNum \in MatchNums : AddTeamToMatch(uid, matchNum)
    \/ \E teamNum \in TeamNums, matchNum \in MatchNums :
          RemoveTeamFromMatch(teamNum, matchNum)
    \/ \E uid \in StoreUids : RemoveTeam(uid)
    \/ \E matchNum \in MatchNums : RemoveMatch(matchNum)

Spec == Init /\ [][Next]_vars

\* the table Teams alone, under teams that differ in every field
NextTeams ==
    \/ \E team \in ProfileTeamInputs : AddTeam(team)
    \/ \E uid \in StoreUids : RemoveTeam(uid)

SpecTeams == Init /\ [][NextTeams]_vars

\* the results of a hydrated Match object
InitResult ==
    /\ InitCommon
    /\ teamsTable = {}
    /\ matchesTable = {}
    /\ match \in {MatchFromSQLStatment(r) : r \in ResultRows}

NextResult == CallResult

SpecResult == InitResult /\ [][NextResult]_vars

\* GetNextTeamUID on a store that holds some teams
InitUID ==
    /\ InitCommon
    /\ teamsTable \in UidTables
    /\ matchesTable = {}
    /\ match = EmptyMatch

NextUID ==
    \/ GetNextTeamUID
    \/ GetNextTeamUIDDraw

SpecUID == InitUID /\ [][NextUID]_vars

\* the same with fair draws: std::uniform_int_distribution, seeded anew from
\* std::random_device in every pass, gives every value of the range again
\* and again; so a loop that keeps running draws, among the others, the
\* lowest value that is the uid of no row
LowestUnused(tt) ==
    CHOOSE u \in UidDraws :
        /\ ~TeamExistsUID(tt, u)
        /\ \A v \in UidMin..(u - 1) : TeamExistsUID(tt, v)
DrawLowestUnused ==
    /\ uidLoop.pc = "loop"
    /\ \E u \in UidDraws : ~TeamExistsUID(teamsTable, u)
    /\ uidLoop' = [pc |-> "idle", uid |-> LowestUnused(teamsTable),
                   retried |-> uidLoop.retried]
    /\ GetNextTeamUIDDraw

\* no GetNextTeamUID was called yet: ret shows 0, as it does during a call
InitUIDFair ==
    /\ added = NoHist
    /\ call = [name |-> "Init"]
    /\ ret = 0
    /\ out = NoValue
    /\ uidLoop = Idle
    /\ csvFile = <<>>
    /\ exported = <<>>
    /\ predictor = NoPredictor
    /\ dataBase = OpenDataBase
    /\ mainFrame = NoFrame
    /\ teamsTable \in UidTables
    /\ matchesTable = {}
    /\ match = EmptyMatch

SpecUIDFair ==
    InitUIDFair /\ [][NextUID]_vars /\ WF_uidLoop(DrawLowestUnused)

\* GetTeamWinRate on a store that holds some matches
InitWinRate ==
    /\ InitCommon
    /\ teamsTable = {}
    /\ matchesTable \in RateTables
    /\ match = EmptyMatch

NextWinRate == \E teamNum \in TeamNums : CallGetTeamWinRate(teamNum)

SpecWinRate == InitWinRate /\ [][NextWinRate]_vars

\* export of table Teams, and import of the exported file
InitCSV ==
    /\ InitCommon
    /\ teamsTable \in CsvTables
    /\ matchesTable = {}
    /\ match = EmptyMatch

NextCSV ==
    \/ ExportTableToCSV
    \/ \E uid \in StoreUids \cup ImportUids : RemoveTeam(uid)
    \/ \E uids \in ImportUidSeqs : ImportTableFromCSV(uids)

SpecCSV == InitCSV /\ [][NextCSV]_vars

\* seating and unseating teams in stored matches
InitSeat ==
    /\ InitCommon
    /\ teamsTable = {}
    /\ matchesTable \in SeatTables
    /\ match = EmptyMatch

NextSeat ==
    \/ \E team \in StoreTeamInputs : AddTeam(team)
    \/ \E uid \in StoreUids, matchNum \in MatchNums : AddTeamToMatch(uid, matchNum)
    \/ \E teamNum \in TeamNums, matchNum \in MatchNums :
          RemoveTeamFromMatch(teamNum, matchNum)

SpecSeat == InitSeat /\ [][NextSeat]_vars

\* the repository from the empty store, its matches created with no team
\* seated and filled by AddTeamToMatch only
NextRef ==
    \/ \E team \in StoreTeamInputs : AddTeam(team)
    \/ \E matchNum \in MatchNums :
          AddMatch(MkMatch(matchNum, <<0, 0, 0, 0, 0, 0>>, TRUE, FALSE))
    \/ \E uid \in StoreUids, matchNum \in MatchNums : AddTeamToMatch(uid, matchNum)
    \/ \E teamNum \in TeamNums, matchNum \in MatchNums :
          RemoveTeamFromMatch(teamNum, matchNum)
    \/ \E uid \in StoreUids : RemoveTeam(uid)
    \/ \E matchNum \in MatchNums : RemoveMatch(matchNum)
    \/ \E team \in StoreTeamInputs : CallUpdateTeam(team)

SpecRef == Init /\ [][NextRef]_vars

\* the predictor, constructed and asked on a store that holds some matches
InitPredictor ==
    /\ InitCommon
    /\ teamsTable = {}
    /\ matchesTable \in PredictTables
    /\ match = EmptyMatch

NextPredictor ==
    \/ \E uninit \in BOOLEAN, load \in LoadOutcomes,
          featuresOk \in BOOLEAN, labelsOk \in BOOLEAN,
          accuracy \in {0, 100} :
          RFPredictor(uninit, load, featuresOk, labelsOk, accuracy)
    \/ \E matchNum \in MatchNums, prediction \in {0, 1} :
          PredictMatchOutcome(matchNum, prediction)
    \/ IsModelAvailable

SpecPredictor == InitPredictor /\ [][NextPredictor]_vars

\* a Match object, empty or hydrated, asked who is seated in it
NextMember ==
    \/ \E team \in MatchTeamInputs : team.teamNum # 0 /\ CallAddCompetitor(team)
    \/ \E teamNum \in TeamNums \ {0} : CallRemoveCompetitor(teamNum)
    \/ \E teamNum \in TeamNums : CallTeamInMatch(teamNum)

SpecMember == InitMatch /\ [][NextMember]_vars

\* the same store under calls that name teams by uid, stored or not
NextAbsent ==
    \/ \E team \in StoreTeamInputs : AddTeam(team)
    \/ \E uid \in StoreUids, matchNum \in MatchNums : AddTeamToMatch(uid, matchNum)
    \/ \E uid \in StoreUids : RemoveTeam(uid)

SpecAbsent == InitSeat /\ [][NextAbsent]_vars

\* the application from its start on a data.db that holds some matches: the
\* DataBase constructor, the first display, then the match list's handlers
AppTables ==
    {{MkRow(k, <<1, 2, 0, 0, 0, 0>>, 1, 0) : k \in 1..n} :
        n \in 0..Cardinality(MatchNums)}

InitApp ==
    /\ teamsTable = {}
    /\ matchesTable \in AppTables
    /\ match = EmptyMatch
    /\ added = NoHist
    /\ call = [name |-> "Init"]
    /\ ret = NoValue
    /\ out = NoValue
    /\ uidLoop = Idle
    /\ csvFile = <<>>
    /\ exported = <<>>
    /\ predictor = NoPredictor
    /\ dataBase = NoDataBase
    /\ mainFrame \in {[NoFrame EXCEPT !.m_displayedMatchCount = uninit] :
                         uninit \in {0, 1}}

NextApp ==
    \/ \E uninit \in BOOLEAN, fileExists \in BOOLEAN,
          creatable \in BOOLEAN, openOk \in BOOLEAN, teamsOk \in BOOLEAN,
          matchesOk \in BOOLEAN, unopened \in UnopenedOutcomes :
          DataBase(uninit, fileExists, creatable, openOk, teamsOk, matchesOk,
                   unopened)
    \/ DisplayExistingData
    \/ \E row \in 0..MaxDisplayed : OnMatchRowLeftClicked(row)
    \/ OnCreateNewMatch
    \/ OnDuplicateMatch
    \/ \E opt \in {"yes", "no"} : OnDeleteMatch(opt)

SpecApp == InitApp /\ [][NextApp]_vars

(***************************************************************************)
(* Properties.                                                             *)
(***************************************************************************)
\* the rows of Matches that hold teamNum in some slot / in a red slot
RowsSeating(teamNum) ==
    {r \in matchesTable : \E i \in SlotIdx : r.team[i] = teamNum}
RowsSeatingRed(teamNum) ==
    {r \in matchesTable : \E i \in 1..RedSlots : r.team[i] = teamNum}

\* C1: AddTeam(T) directly followed by GetTeam(T.uid) returns T, field for
\* field, whatever rows table Teams held before (checked under SpecTeams).
C1_AddThenGet ==
    call.name = "AddTeam" => GetTeam(teamsTable, call.team.uid) = {call.team}

\* C2: after RemoveTeam(uid) of a stored team with teamNum n, GetTeam(uid)
\* returns the all-zero record and no stored roster holds n in any slot.
C2_Cascade ==
    (call.name = "RemoveTeam" /\ call.teamNums # {}) =>
        /\ GetTeam(teamsTable, call.uid) = {ZeroTeam}
        /\ \A n \in call.teamNums \ {0} :
              /\ RowsSeating(n) = {}
              /\ \A k \in MatchNums : ~TeamInMatchNum(matchesTable, n, k)

\* C3: on a Match that started empty or hydrated, after any AddCompetitor and
\* RemoveCompetitor calls teamCount is in 0..6 and equals the number of slots
\* whose teamNum is not 0 (checked under SpecMatchSeated).
C3_RosterInvariant ==
    /\ match.teamCount \in 0..6
    /\ match.teamCount =
          Cardinality({i \in SlotIdx : match.teams[i].teamNum # 0})

\* C4: AddCompetitor on a Match whose teamCount is 6 changes nothing: not
\* teamCount, no slot, not matchNum, redWin or blueWin (under SpecMatch).
C4_FullAddNoOp ==
    [][(match.teamCount = 6 /\ call'.name = "AddCompetitor") =>
          /\ match'.teamCount = 6
          /\ match'.teams = match.teams
          /\ match'.matchNum = match.matchNum
          /\ match'.redWin = match.redWin
          /\ match'.blueWin = match.blueWin]_vars

C4_Witness ==
    /\ call.name = "AddCompetitor"
    /\ out = MsgFull
    /\ match.teamCount = 6
    /\ \A i \in SlotIdx : match.teams[i].teamNum # 0

\* C5: a value GetNextTeamUID returns lies in 1000..9999 and is the uid of no
\* row of Teams at the moment of the return (checked under SpecUID).
C5_FreshUID ==
    (call.name = "GetNextTeamUID" /\ uidLoop.pc = "idle") =>
        /\ ret \in 1000..9999
        /\ \A r \in teamsTable : r.uid # ret

C5_Witness ==
    /\ call.name = "GetNextTeamUID"
    /\ uidLoop.pc = "idle"
    /\ uidLoop.retried
    /\ teamsTable # {}

\* C6: GetTeamWinRate(n) is exactly 0 for a teamNum n that no stored match
\* holds, the empty Matches table included (checked under SpecWinRate).
C6_ZeroWhenUnseated ==
    (call.name = "GetTeamWinRate" /\ RowsSeating(call.teamNum) = {}) =>
        ret = <<0, 1>>

C6_Witness ==
    /\ call.name = "GetTeamWinRate"
    /\ call.teamNum # 0
    /\ RowsSeating(call.teamNum) = {}
    /\ \E r \in matchesTable : r.redWin = 1 /\ r.blueWin = 0
    /\ ret = <<0, 1>>

\* C7: GetTeamWinRate(n) is 0 when every match that seats n seats it in slots
\* 3-5 only, also when those matches are blue wins (under SpecWinRate).
C7_BlueOnlyIsZero ==
    (call.name = "GetTeamWinRate" /\ RowsSeatingRed(call.teamNum) = {}) =>
        ret = <<0, 1>>

C7_Witness ==
    /\ call.name = "GetTeamWinRate"
    /\ call.teamNum # 0
    /\ RowsSeating(call.teamNum) # {}
    /\ RowsSeatingRed(call.teamNum) = {}
    /\ \A r \in RowsSeating(call.teamNum) : r.blueWin = 1 /\ r.redWin = 0
    /\ ret = <<0, 1>>

\* C8: for a non-zero n seated in P >= 1 stored matches, GetTeamWinRate(n) is
\* 100 * W / P, W the number of those with n in slots 0-2, redWin true and
\* blueWin false; so it lies in [0,100] and is 100 when W = P (SpecWinRate).
WinsOf(teamNum) ==
    Cardinality({r \in RowsSeatingRed(teamNum) : r.redWin = 1 /\ r.blueWin = 0})
PlayedOf(teamNum) == Cardinality(RowsSeating(teamNum))

C8_WinRateFormula ==
    (call.name = "GetTeamWinRate" /\ call.teamNum # 0
        /\ PlayedOf(call.teamNum) >= 1) =>
        /\ ret[2] > 0
        /\ ret[1] * PlayedOf(call.teamNum) = 100 * WinsOf(call.teamNum) * ret[2]
        /\ 0 <= ret[1] /\ ret[1] <= 100 * ret[2]
        /\ (WinsOf(call.teamNum) = PlayedOf(call.teamNum) => ret = <<100, 1>>)

C8_Witness ==
    /\ call.name = "GetTeamWinRate"
    /\ call.teamNum # 0
    /\ PlayedOf(call.teamNum) = 2
    /\ WinsOf(call.teamNum) = 1
    /\ \E r \in RowsSeatingRed(call.teamNum) : r.redWin = 1 /\ r.blueWin = 1
    /\ ret = <<50, 1>>

\* C9: for every (redWin, blueWin) pair IsTie holds iff both are true, RedWon
\* iff redWin and not blueWin, BlueWon iff blueWin and not redWin, and exactly
\* one of RedWon, BlueWon, IsTie, undecided holds (checked under SpecResult).
Undecided == ~match.redWin /\ ~match.blueWin

C9_Results ==
    call.name = "Result" =>
        /\ ret.IsTie = (match.redWin /\ match.blueWin)
        /\ ret.RedWon = (match.redWin /\ ~match.blueWin)
        /\ ret.BlueWon = (match.blueWin /\ ~match.redWin)
        /\ Cardinality({k \in 1..4 :
               <<ret.RedWon, ret.BlueWon, ret.IsTie, Undecided>>[k]}) = 1

C9_Witness ==
    /\ call.name = "Result"
    /\ match.redWin /\ match.blueWin
    /\ ret.IsTie /\ ~ret.RedWon /\ ~ret.BlueWon

\* C10: after k <= 6 AddCompetitor calls with distinct non-zero teamNums on an
\* empty Match the i-th added team sits in slot i-1, TeamInMatch is true of
\* the added and false of the other non-zero teamNums, and RedAllianceTeam is
\* true of exactly the first three added (checked under SpecMatchAdd).
AddedSet == {added[i] : i \in 1..Len(added)}
FirstAdded == {added[i] : i \in 1..(IF Len(added) < 3 THEN Len(added) ELSE 3)}
DistinctAdds ==
    /\ added # NoHist
    /\ Len(added) \in 1..6
    /\ Cardinality(AddedSet) = Len(added)
    /\ 0 \notin AddedSet

C10_AddsInOrder ==
    DistinctAdds =>
        /\ \A i \in 1..Len(added) : match.teams[i].teamNum = added[i]
        /\ \A n \in AddedSet : MatchTeamInMatch(match, n)
        /\ \A n \in (1..MaxAddTeamNum) \ AddedSet : ~MatchTeamInMatch(match, n)
        /\ \A n \in 1..MaxAddTeamNum :
              RedAllianceTeam(match, n) <=> n \in FirstAdded

C10_Witness ==
    /\ DistinctAdds
    /\ Len(added) = 6
    /\ call.name = "AddCompetitor"
    /\ (1..MaxAddTeamNum) \ AddedSet # {}

\* C11: exporting table Teams to CSV and importing that file into an empty
\* Teams table yields one team per exported row, equal to it in teamNum,
\* matchNum, hangAttempt, hangSuccess and the eight metrics; only the uid
\* differs (checked under SpecCSV).
SameButUid(r, q) == [r EXCEPT !.uid = 0] = [q EXCEPT !.uid = 0]

C11_TeamsRoundTrip ==
    (call.name = "ImportTableFromCSV" /\ call.before = {}) =>
        \E rows \in RowOrders(teamsTable) :
            /\ Len(rows) = Len(exported)
            /\ \A k \in DOMAIN rows : SameButUid(rows[k], exported[k])

\* C12: AddTeam is an upsert by uid: after any sequence of AddTeam calls table
\* Teams holds at most one row per uid, and after AddTeam(T) the only row with
\* T.uid is the row of T, whatever teamNum the earlier row had (SpecTeams).
C12_UpsertByUid ==
    /\ \A r, q \in teamsTable : r.uid = q.uid => r = q
    /\ call.name = "AddTeam" =>
          {r \in teamsTable : r.uid = call.team.uid} = {BindTeam(call.team)}

\* the row of match k, whether a row seats teamNum, the occupied slots of a row
RowOf(mt, k) == CHOOSE r \in mt : r.matchNum = k
SeatedIn(row, teamNum) == \E i \in SlotIdx : row.team[i] = teamNum
Seats(row) == {i \in SlotIdx : row.team[i] # 0}

\* C13: AddTeamToMatch(uid, m) changes neither table when match m is absent,
\* when the teamNum resolved from uid is already seated in m, or when m has
\* six seated teams; it never creates match m (checked under SpecSeat).
C13_AddTeamToMatchFails ==
    [][(/\ call'.name = "AddTeamToMatch"
        /\ \/ \A r \in matchesTable : r.matchNum # call'.matchNum
           \/ /\ call'.resolved
              /\ call'.teamNum # 0
              /\ SeatedIn(RowOf(matchesTable, call'.matchNum), call'.teamNum)
           \/ /\ call'.resolved
              /\ Cardinality(Seats(RowOf(matchesTable, call'.matchNum))) = 6)
       => /\ teamsTable' = teamsTable
          /\ matchesTable' = matchesTable]_vars

C13_Witness ==
    /\ call.name = "AddTeamToMatch"
    /\ call.resolved
    /\ call.teamNum # 0
    /\ \E r \in teamsTable : r.uid = call.uid
    /\ Cardinality(Seats(RowOf(matchesTable, call.matchNum))) = 6
    /\ out = MsgFull

\* C14: when AddTeamToMatch(uid, m) succeeds (m exists, the stored team's
\* teamNum is not seated, fewer than six seated) the roster of m afterwards
\* holds the new teamNum and every teamNum seated before in its slot, so one
\* more team is seated; also with an empty slot before an occupied one.
C14_AddKeepsSeats ==
    [][(/\ call'.name = "AddTeamToMatch"
        /\ call'.resolved
        /\ call'.teamNum # 0
        /\ \E r \in teamsTable : r.uid = call'.uid
        /\ ~SeatedIn(RowOf(matchesTable, call'.matchNum), call'.teamNum)
        /\ Cardinality(Seats(RowOf(matchesTable, call'.matchNum))) < 6)
       => LET before == RowOf(matchesTable, call'.matchNum)
              after  == RowOf(matchesTable', call'.matchNum)
          IN  /\ SeatedIn(after, call'.teamNum)
              /\ \A i \in Seats(before) : after.team[i] = before.team[i]
              /\ Cardinality(Seats(after)) = Cardinality(Seats(before)) + 1]_vars

\* C15: RemoveTeamFromMatch(n, m) with n # 0 changes nothing when m is absent
\* or n is not seated in m; otherwise the row of m is the previous row with the
\* first slot holding n set to 0, and every other slot, redWin, blueWin, every
\* other match and table Teams are unchanged (checked under SpecSeat).
C15_RemoveFromMatchFrame ==
    [][(call'.name = "RemoveTeamFromMatch" /\ call'.teamNum # 0)
       => /\ teamsTable' = teamsTable
          /\ IF \A r \in matchesTable : r.matchNum # call'.matchNum
             THEN matchesTable' = matchesTable
             ELSE LET before == RowOf(matchesTable, call'.matchNum)
                      first == CHOOSE i \in SlotIdx :
                                  /\ before.team[i] = call'.teamNum
                                  /\ \A j \in 1..(i - 1) :
                                        before.team[j] # call'.teamNum
                  IN  IF ~SeatedIn(before, call'.teamNum)
                      THEN matchesTable' = matchesTable
                      ELSE matchesTable' =
                             (matchesTable \ {before})
                                \cup {[before EXCEPT !.team[first] = 0]}]_vars

C15_Witness ==
    /\ call.name = "RemoveTeamFromMatch"
    /\ call.teamNum # 0
    /\ out = MsgUpdated
    /\ Cardinality(matchesTable) = 2
    /\ LET row == RowOf(matchesTable, call.matchNum)
       IN  /\ ~SeatedIn(row, call.teamNum)
           /\ row.team[1] = 0
           /\ \E i \in SlotIdx : row.team[i] # 0

\* C16: RemoveMatch(m) deletes exactly the row of match m: afterwards no row
\* has matchNum m, every other row of Matches is unchanged and table Teams is
\* unchanged, the teams whose matchNum is m included (checked under Spec).
C16_RemoveMatchFrame ==
    [][call'.name = "RemoveMatch"
       => /\ \A r \in matchesTable' : r.matchNum # call'.matchNum
          /\ \A r \in matchesTable :
                r.matchNum # call'.matchNum => r \in matchesTable'
          /\ matchesTable' \subseteq matchesTable
          /\ teamsTable' = teamsTable]_vars

C16_Witness ==
    /\ call.name = "RemoveMatch"
    /\ call.existed
    /\ matchesTable # {}
    /\ \A r \in matchesTable : r.matchNum # call.matchNum
    /\ \E r \in teamsTable : r.matchNum = call.matchNum

\* C17: UpdateTeam(T) when no row of Teams has uid T.uid fails: no row is
\* written, an error is logged, and both tables are unchanged (under SpecRef).
C17_UpdateMissingTeamFails ==
    [][(/\ call'.name = "UpdateTeam"
        /\ \A r \in teamsTable : r.uid # call'.team.uid)
       => /\ out' = MsgUpdateTeamError
          /\ teamsTable' = teamsTable
          /\ matchesTable' = matchesTable]_vars

\* C18: in every state reached from the empty store by AddTeam, AddMatch with
\* an empty roster, AddTeamToMatch, RemoveTeamFromMatch, RemoveTeam,
\* RemoveMatch and UpdateTeam, every non-zero teamNum in a stored roster is
\* the teamNum of a row of Teams (checked under SpecRef).
C18_RostersReferToTeams ==
    \A r \in matchesTable : \A i \in SlotIdx :
        r.team[i] # 0 => \E t \in teamsTable : t.teamNum = r.team[i]

\* C19: after the construction of RFPredictor, IsModelAvailable() is true iff
\* the model artifact loaded, or the load failed and both datasets loaded so
\* that training ran; training is attempted only after a failed load; when
\* the load (also one that raises an error) and the training both fail, the
\* predictor is unavailable (checked under SpecPredictor).
C19_AvailableIffLoadedOrTrained ==
    predictor.constructed =>
        /\ predictor.m_available <=>
              (predictor.load = "loaded"
                  \/ (predictor.load # "loaded" /\ predictor.trained))
        /\ predictor.trainAttempted => predictor.load # "loaded"
        /\ (predictor.load # "loaded" /\ ~predictor.trained) =>
              ~predictor.m_available

\* C20: the availability is fixed once the constructor has returned: no
\* PredictMatchOutcome or IsModelAvailable call changes it, an available
\* predictor stays available and an unavailable one stays unavailable.
C20_AvailabilityFixed ==
    [][predictor.constructed =>
          /\ predictor'.constructed
          /\ predictor'.m_available = predictor.m_available
          /\ predictor'.load = predictor.load
          /\ predictor'.trainAttempted = predictor.trainAttempted]_vars

C20_Witness ==
    /\ predictor.constructed
    /\ ~predictor.m_available
    /\ predictor.trainAttempted
    /\ call.name = "PredictMatchOutcome"
    /\ matchesTable # {}
    /\ ret = FALSE

\* C21: once the predictor is constructed, the model artifact has been
\* written exactly when training ran to completion, that is when the load of
\* the artifact did not succeed and both datasets were loaded; whatever the
\* accuracy. It is not written after a successful load or when a dataset
\* failed to load.
C21_SavedIffTrained ==
    predictor.constructed =>
        /\ predictor.saved <=>
               /\ predictor.load # "loaded"
               /\ predictor.featuresLoaded
               /\ predictor.labelsLoaded
        /\ predictor.saved <=> predictor.trained
        /\ predictor.load = "loaded" => ~predictor.saved

C21_Witness ==
    /\ predictor.constructed
    /\ predictor.load = "failed"
    /\ predictor.saved
    /\ predictor.accuracy = 0

\* C22: a predictor whose m_available is false answers every
\* PredictMatchOutcome(matchNum) with false, without a GetMatch or
\* GetTeamWinRate on the DataBase and without a Classify.
C22_UnavailableAnswersFalse ==
    (call.name = "PredictMatchOutcome" /\ ~predictor.m_available) =>
        /\ ret = FALSE
        /\ ~call.classified
        /\ call.reads = <<>>

C22_Witness ==
    /\ call.name = "PredictMatchOutcome"
    /\ ~predictor.m_available
    /\ predictor.trainAttempted
    /\ MatchExists(matchesTable, call.matchNum)
    /\ ret = FALSE

\* C23: a PredictMatchOutcome(m) on a predictor whose m_available is true and
\* a stored match m hands Classify 12 features: entry i is the teamNum in
\* slot i of the stored row of m (red slots, then blue slots) and entry 6+i
\* is GetTeamWinRate of that teamNum; the call changes neither table.
C23_FeaturesOfStoredMatch ==
    [][(/\ call'.name = "PredictMatchOutcome"
        /\ predictor.m_available
        /\ MatchExists(matchesTable, call'.matchNum))
       => /\ call'.classified
          /\ DOMAIN call'.features = 1..12
          /\ \A i \in SlotIdx :
                LET teamNum == RowOf(matchesTable, call'.matchNum).team[i]
                IN  /\ call'.features[i] = <<teamNum, 1>>
                    /\ call'.features[6 + i] =
                           GetTeamWinRate(matchesTable, teamNum)
          /\ UNCHANGED <<teamsTable, matchesTable>>]_vars

C23_Witness ==
    /\ call.name = "PredictMatchOutcome"
    /\ predictor.m_available
    /\ predictor.trained
    /\ call.classified
    /\ ret = TRUE
    /\ MatchExists(matchesTable, call.matchNum)
    /\ \E i \in SlotIdx, j \in SlotIdx :
          /\ RowOf(matchesTable, call.matchNum).team[i] # 0
          /\ call.features[6 + i] = <<100, 1>>
          /\ RowOf(matchesTable, call.matchNum).team[j] # 0
          /\ call.features[6 + j] = <<0, 1>>

\* C24: with fair draws, a GetNextTeamUID that entered its loop on a table
\* that leaves some value of 1000..9999 unused returns; no pass of the loop
\* changes table Teams or table Matches (checked under SpecUIDFair).
C24_UIDLoopReturns ==
    /\ (uidLoop.pc = "loop" /\ \E u \in UidMin..UidMax :
                                  \A r \in teamsTable : r.uid # u)
           ~> (uidLoop.pc = "idle" /\ ret \in UidMin..UidMax)
    /\ [][uidLoop.pc = "loop" => UNCHANGED <<teamsTable, matchesTable>>]_vars

C24_Witness ==
    /\ call.name = "GetNextTeamUID"
    /\ uidLoop.pc = "idle"
    /\ uidLoop.retried
    /\ uidLoop.uid = ret
    /\ ret = UidMin + 2
    /\ Cardinality(teamsTable) >= 2

\* C25: teamNum 0, which marks an empty slot, is reported as seated by none
\* of Match::TeamInMatch, DataBase::TeamInMatch(int, const Match&) and
\* Match::RedAllianceTeam, whatever the Match object holds (checked under
\* SpecMember).
C25_ZeroNeverSeated ==
    (call.name = "TeamInMatch" /\ call.teamNum = 0) =>
        /\ ~ret.Match
        /\ ~ret.DataBase
        /\ ~ret.RedAllianceTeam

\* C26: in the features PredictMatchOutcome hands to Classify, the win rate
\* of an empty slot (teamNum 0) is 0, whatever matches are stored: that is,
\* GetTeamWinRate(0) is 0 (checked under SpecPredictor).
C26_EmptySlotRateZero ==
    (call.name = "PredictMatchOutcome" /\ call.classified) =>
        /\ \A i \in SlotIdx :
              call.features[i] = <<0, 1>> => call.features[6 + i] = <<0, 1>>
        /\ GetTeamWinRate(matchesTable, 0) = <<0, 1>>

\* C27: in a store whose matches are created with no team seated and filled
\* by AddTeamToMatch, RemoveTeamFromMatch and RemoveTeam, no teamNum other
\* than 0 sits in two slots of one stored match, also when rows of Teams
\* with different uids carry the same teamNum (checked under SpecRef).
C27_NoTeamNumTwice ==
    \A r \in matchesTable : \A i \in SlotIdx, j \in SlotIdx :
        (i # j /\ r.team[i] # 0) => r.team[i] # r.team[j]

C27_Witness ==
    /\ call.name = "AddTeamToMatch"
    /\ call.resolved
    /\ out = MsgSeated
    /\ call.teamNum # 0
    /\ \E t \in teamsTable :
          /\ t.uid # call.uid
          /\ t.teamNum = call.teamNum
    /\ \E r \in matchesTable :
          /\ r.matchNum = call.matchNum
          /\ Cardinality({i \in SlotIdx : r.team[i] = call.teamNum}) = 1
          /\ Cardinality(Seats(r)) = 2

\* C28: RemoveTeam(uid) and AddTeamToMatch(uid, m) with a uid that no row of
\* Teams carries leave every row of Teams and every row of Matches (six
\* slots, redWin, blueWin) as they were, also rows with both empty and
\* occupied slots (checked under SpecAbsent).
C28_AbsentUidChangesNothing ==
    [][(/\ call'.name \in {"RemoveTeam", "AddTeamToMatch"}
        /\ \A r \in teamsTable : r.uid # call'.uid)
       => UNCHANGED <<teamsTable, matchesTable>>]_vars

C28_Witness ==
    /\ call.name = "RemoveTeam"
    /\ call.teamNums = {}
    /\ teamsTable # {}
    /\ \E r \in matchesTable : Seats(r) # {} /\ Seats(r) # SlotIdx
    /\ \E r \in matchesTable : Seats(r) = {}

\* C29: every OnCreateNewMatch and OnDuplicateMatch that stores a match,
\* after any sequence of these and of OnDeleteMatch, stores it under a
\* matchNum no row of Matches had, so every row of Matches is kept as it
\* was (checked under SpecApp).
C29_CreateNeverOverwrites ==
    [][(/\ call'.name \in {"OnCreateNewMatch", "OnDuplicateMatch"}
        /\ call'.stored)
       => /\ ~MatchExists(matchesTable, call'.matchNum)
          /\ matchesTable \subseteq matchesTable']_vars

\* C30: when the DataBase constructor has returned, sqlite3_open was
\* performed by Connect, m_connected is true and both tables exist; a file
\* that cannot be created, a store that cannot be opened and a table that
\* cannot be created end the process inside the constructor (SpecApp).
C30_ConstructedMeansOpen ==
    /\ dataBase.constructed =>
          /\ dataBase.opened
          /\ dataBase.m_connected
          /\ dataBase.hasTeams
          /\ dataBase.hasMatches
          /\ dataBase.ended = "no"
    /\ (/\ call.name = "DataBase"
        /\ \/ ~call.fileExists /\ ~call.fileCreatable
           \/ ~call.openOk
           \/ ~call.teamsOk
           \/ ~call.matchesOk)
       => (~dataBase.constructed /\ dataBase.ended # "no")

C30_Witness ==
    /\ call.name = "DataBase"
    /\ dataBase.constructed
    /\ ~call.fileExists
    /\ dataBase.opened
    /\ dataBase.hasMatches

====
